---- MODULE Spec2Model ----
(***************************************************************************)
(* A state-machine model of vae_mnist_wandb.py: the script-level training  *)
(* loop, the evaluation / sampling block, and the tensor shapes and the    *)
(* reparameterization arithmetic of Encoder, Decoder and Model.            *)
(*                                                                         *)
(* Tensors are tracked by their shape (a tuple of dimensions).  Inside the *)
(* Encoder frame one representative component of mean, log_var, std,       *)
(* epsilon and z is tracked by value.  log_var is counted in units of ln 2 *)
(* so that exp(0.5 * log_var) is the integer 2^(log_var / 2).              *)
(* The model parameters are tracked by the number of updates applied to    *)
(* their initial values.                                                   *)
(***************************************************************************)
EXTENDS Integers, Sequences, FiniteSets

(* ---------------- hyperparameters (script constants) ------------------- *)
batch_size == 100
x_dim == 784
hidden_dim == 400
latent_dim == 20
log_interval == 10

(* ---------------- bounds of the model ---------------------------------- *)
\* epochs ranges over 0..MaxEpochs
MaxEpochs == 2
\* the training set holds 1..MaxBatches full batches ...
MaxBatches == 11
\* ... followed by no partial batch or by one of PartialRem samples
PartialRem == 50
\* batch sizes 1..MaxBatchDim on which the forward shapes are also evaluated
MaxBatchDim == 3

\* sample values of one component of mean / log_var (in ln 2) / epsilon, of loss
MeanValues == {-1, 2}
LogVarValues == {0, 2}
EpsValues == {-1, 0, 1}
LossValues == {1, 2}
\* sample sizes of the test set: one or two full batches
TestSizes == {batch_size, 2 * batch_size}

VARIABLES
    epochs,         \* the epoch count (line 25)
    train_size,     \* len(train_dataset)
    test_size,      \* len(test_dataset)
    pc,             \* position of the script
    err,            \* the uncaught exception that ended the run, or "none"
    training,       \* model.training
    epoch,          \* loop variable of line 131 (-1: not bound yet)
    batch_idx,      \* loop variable of lines 133 / 176 (-1: not bound yet)
    it,             \* batches already fetched from the loader being iterated
    x,              \* shape of x
    x_hat,          \* shape of x_hat
    mean,           \* shape of mean
    log_var,        \* shape of log_var
    enc,            \* the Encoder.forward frame
    overall_loss,   \* the accumulator of line 132 / 144
    grads,          \* batches whose gradients are accumulated in .grad
    step_grads,     \* the gradients the last optimizer step applied
    params,         \* number of updates applied to the initial parameters
    opt_steps,      \* number of optimizer.step() calls
    calls,          \* the operations performed for the current training batch
    wandb_log,      \* the wandb.log emissions, in order
    console,        \* the last epoch summary line printed
    epoch_losses,   \* how often each loss value occurred in the current epoch
    eval_fwd,       \* the test batches the model was run on under no_grad
    noise,          \* shape of noise
    generated_images, \* shape of generated_images
    files           \* the save_image calls, in order

vars == <<epochs, train_size, test_size, pc, err, training, epoch, batch_idx, it,
          x, x_hat, mean, log_var, enc, overall_loss, grads, step_grads,
          params, opt_steps, calls, wandb_log, console, epoch_losses, eval_fwd,
          noise, generated_images, files>>

(* ---------------- shapes ----------------------------------------------- *)
Unbound == <<>>
ShapeError == <<-1>>

RECURSIVE Numel(_)
Numel(s) == IF s = <<>> THEN 1 ELSE Head(s) * Numel(Tail(s))

\* faulty variant: view(-1, x_dim), which takes a batch of any size
view_Infer(s, target) ==
    IF Len(target) = 2 THEN <<Numel(s) \div target[2], target[2]>> ELSE target

\* Tensor.view: the element count must not change
view(s, target) == IF Numel(s) = Numel(target) THEN target ELSE ShapeError

\* nn.Linear(in_features, out_features) applied to a 2-d input
Linear(in_features, out_features, s) ==
    IF Len(s) = 2 /\ s[2] = in_features THEN <<s[1], out_features>> ELSE ShapeError

FC_input(s) == Linear(x_dim, hidden_dim, s)
FC_mean(s) == Linear(hidden_dim, latent_dim, s)
\* faulty variant: the log-variance head as wide as the hidden layer
FC_var_HiddenWidth(s) == Linear(hidden_dim, hidden_dim, s)
FC_var(s) == Linear(hidden_dim, latent_dim, s)
FC_hidden(s) == Linear(latent_dim, hidden_dim, s)
FC_output(s) == Linear(hidden_dim, x_dim, s)

\* shape of an elementwise a + b or a * b of two tensors of equal rank
Elementwise(a, b) == IF a = b THEN a ELSE ShapeError

\* Decoder.forward: relu and sigmoid keep the shape
Decoder(s) == FC_output(FC_hidden(s))

(* ---------------- Encoder arithmetic ----------------------------------- *)
\* torch.exp(0.5 * log_var), log_var in units of ln 2
Std(lv) == 2 ^ (lv \div 2)

\* faulty variant: the noise added instead of scaled by std
reparameterization_AddNoise(m, std, epsilon) == m + std + epsilon

reparameterization(m, std, epsilon) == m + std * epsilon

NoFrame == [active |-> FALSE, mean |-> 0, log_var |-> 0, std |-> 0, epsilon |-> 0,
            z |-> 0, mean_shape |-> Unbound, log_var_shape |-> Unbound,
            std_shape |-> Unbound, z_shape |-> Unbound]

\* Encoder.forward on an input of shape s, with component values m, lv and noise e
EncoderFrame(s, m, lv, e) ==
    LET h_ == FC_input(s)
        ms == FC_mean(h_)
        ls == FC_var(h_)
        ss == ls
        es == ss
    IN  [active |-> TRUE, mean |-> m, log_var |-> lv, std |-> Std(lv), epsilon |-> e,
         z |-> reparameterization(m, Std(lv), e),
         mean_shape |-> ms, log_var_shape |-> ls, std_shape |-> ss,
         z_shape |-> Elementwise(ms, Elementwise(ss, es))]

(* ---------------- data loaders ----------------------------------------- *)
\* len(DataLoader) with drop_last = False
NumBatches(size) == (size + batch_size - 1) \div batch_size

\* number of samples of batch i
BatchLen(size, i) ==
    IF (i + 1) * batch_size <= size THEN batch_size ELSE size - i * batch_size

\* faulty variant: the last batch of the loader is dropped
LoaderHasNext_DropLast(i, size) == i + 1 < NumBatches(size)

LoaderHasNext(i, size) == i < NumBatches(size)

\* faulty variant: range(epochs + 1)
RangeHasNext_Inclusive(e, n) == e + 1 <= n

RangeHasNext(e, n) == e + 1 < n

(* ---------------- helpers of the script -------------------------------- *)
\* faulty variant: the gradients are not reset
zero_grad_Keep(g) == g

zero_grad(g) == {}

\* faulty variant: the interval counted from 1
ShouldLog_FromOne(i) == (i + 1) % log_interval = 0

ShouldLog(i) == i % log_interval = 0

Emission(e, i) ==
    << [key |-> "loss", epoch |-> e, batch_idx |-> i],
       [key |-> "composed_input", epoch |-> e, batch_idx |-> i],
       [key |-> "composed_predictions", epoch |-> e, batch_idx |-> i] >>

save_image(fs, s, name) == Append(fs, [name |-> name, shape |-> s])

OrigFile == "orig_data.png"
\* faulty variant: the reconstructions saved under the name of the originals
ReconFile_CopyPaste == "orig_data.png"
ReconFile == "reconstructions.png"
GenFile == "generated_sample.png"

\* faulty variant: no break, the loop goes on to the next test batch
AfterTestForward_NoBreak == "test_head"

\* the statement after line 181: break
AfterTestForward == "save_orig"

NoLine == [epoch |-> 0, num |-> 0, den |-> 0]

NoLosses == [v \in LossValues |-> 0]

(* ---------------- initial state ---------------------------------------- *)
TrainSizes == {f * batch_size + r : f \in 1..MaxBatches, r \in {0, PartialRem}}

Init ==
    /\ epochs \in 0..MaxEpochs
    /\ train_size \in TrainSizes
    /\ test_size \in TestSizes
    /\ pc = "epoch_head"
    /\ err = "none"
    /\ training = TRUE
    /\ epoch = -1
    /\ batch_idx = -1
    /\ it = 0
    /\ x = Unbound
    /\ x_hat = Unbound
    /\ mean = Unbound
    /\ log_var = Unbound
    /\ enc = NoFrame
    /\ overall_loss = 0
    /\ grads = {}
    /\ step_grads = {}
    /\ params = 0
    /\ opt_steps = 0
    /\ calls = <<>>
    /\ wandb_log = <<>>
    /\ console = NoLine
    /\ epoch_losses = NoLosses
    /\ eval_fwd = <<>>
    /\ noise = Unbound
    /\ generated_images = Unbound
    /\ files = <<>>

(* ---------------- training loop ---------------------------------------- *)
\* line 131-132: the next epoch starts
EpochNext ==
    /\ pc = "epoch_head"
    /\ RangeHasNext(epoch, epochs)
    /\ epoch' = epoch + 1
    /\ overall_loss' = 0
    /\ epoch_losses' = NoLosses
    /\ it' = 0
    /\ pc' = "batch_head"
    /\ UNCHANGED <<epochs, train_size, test_size, err, training, batch_idx, x, x_hat,
                   mean, log_var, enc, grads, step_grads, params, opt_steps,
                   calls, wandb_log, console, eval_fwd, noise, generated_images, files>>

\* line 133-135: the loader yields the next batch
BatchNext ==
    /\ pc = "batch_head"
    /\ LoaderHasNext(it, train_size)
    /\ batch_idx' = it
    /\ it' = it + 1
    /\ x' = <<BatchLen(train_size, it), 1, 28, 28>>
    /\ calls' = <<>>
    /\ pc' = "view"
    /\ UNCHANGED <<epochs, train_size, test_size, err, training, epoch, x_hat, mean,
                   log_var, enc, overall_loss, grads, step_grads, params,
                   opt_steps, wandb_log, console, epoch_losses, eval_fwd, noise,
                   generated_images, files>>

\* line 133: the loader is exhausted
BatchesExhausted ==
    /\ pc = "batch_head"
    /\ ~LoaderHasNext(it, train_size)
    /\ pc' = "epoch_print"
    /\ UNCHANGED <<epochs, train_size, test_size, err, training, epoch, batch_idx, it,
                   x, x_hat, mean, log_var, enc, overall_loss, grads, step_grads,
                   params, opt_steps, calls, wandb_log, console, epoch_losses, eval_fwd,
                   noise, generated_images, files>>

\* line 136-137 (training) and 179-180 (evaluation): the reshape succeeds
ViewOk ==
    /\ pc = "view"
    /\ view(x, <<batch_size, x_dim>>) # ShapeError
    /\ x' = view(x, <<batch_size, x_dim>>)
    /\ pc' = IF training THEN "zero_grad" ELSE "encoder"
    /\ UNCHANGED <<epochs, train_size, test_size, err, training, epoch, batch_idx, it,
                   x_hat, mean, log_var, enc, overall_loss, grads, step_grads,
                   params, opt_steps, calls, wandb_log, console, epoch_losses, eval_fwd,
                   noise, generated_images, files>>

\* line 136 / 179: the reshape raises, nothing catches it
ViewFail ==
    /\ pc = "view"
    /\ view(x, <<batch_size, x_dim>>) = ShapeError
    /\ pc' = "failed"
    /\ err' = "RuntimeError"
    /\ UNCHANGED <<epochs, train_size, test_size, training, epoch, batch_idx, it, x,
                   x_hat, mean, log_var, enc, overall_loss, grads, step_grads,
                   params, opt_steps, calls, wandb_log, console, epoch_losses, eval_fwd,
                   noise, generated_images, files>>

\* line 139
ZeroGrad ==
    /\ pc = "zero_grad"
    /\ grads' = zero_grad(grads)
    /\ calls' = Append(calls, "zero_grad")
    /\ pc' = "encoder"
    /\ UNCHANGED <<epochs, train_size, test_size, err, training, epoch, batch_idx, it,
                   x, x_hat, mean, log_var, enc, overall_loss, step_grads, params,
                   opt_steps, wandb_log, console, epoch_losses, eval_fwd, noise,
                   generated_images, files>>

\* line 141 / 181 -> 102 -> 55-62, 70-74: Encoder.forward
EncoderForward ==
    /\ pc = "encoder"
    /\ \E m \in MeanValues, lv \in LogVarValues, e \in EpsValues :
           enc' = EncoderFrame(x, m, lv, e)
    /\ pc' = "decoder"
    /\ UNCHANGED <<epochs, train_size, test_size, err, training, epoch, batch_idx, it,
                   x, x_hat, mean, log_var, overall_loss, grads, step_grads,
                   params, opt_steps, calls, wandb_log, console, epoch_losses, eval_fwd,
                   noise, generated_images, files>>

\* line 103-105 -> 87-89: Decoder.forward and the return of Model.forward
DecoderForward ==
    /\ pc = "decoder"
    /\ x_hat' = Decoder(enc.z_shape)
    /\ mean' = enc.mean_shape
    /\ log_var' = enc.log_var_shape
    /\ enc' = NoFrame
    /\ IF training
         THEN /\ calls' = Append(calls, "forward")
              /\ pc' = "loss"
              /\ UNCHANGED eval_fwd
         ELSE /\ eval_fwd' = Append(eval_fwd, batch_idx)
              /\ pc' = AfterTestForward
              /\ UNCHANGED calls
    /\ UNCHANGED <<epochs, train_size, test_size, err, training, epoch, batch_idx, it,
                   x, overall_loss, grads, step_grads, params, opt_steps,
                   wandb_log, console, epoch_losses, noise, generated_images, files>>

\* line 142, 144: the loss of the batch is computed and added to the accumulator
Loss ==
    /\ pc = "loss"
    /\ \E l \in LossValues :
           /\ overall_loss' = overall_loss + l
           /\ epoch_losses' = [epoch_losses EXCEPT ![l] = @ + 1]
    /\ calls' = Append(calls, "loss")
    /\ pc' = "backward"
    /\ UNCHANGED <<epochs, train_size, test_size, err, training, epoch, batch_idx, it,
                   x, x_hat, mean, log_var, enc, grads, step_grads, params, opt_steps,
                   wandb_log, console, eval_fwd, noise, generated_images, files>>

\* line 146: backward adds this batch's gradients to .grad
Backward ==
    /\ pc = "backward"
    /\ grads' = grads \cup {<<epoch, batch_idx>>}
    /\ calls' = Append(calls, "backward")
    /\ pc' = "step"
    /\ UNCHANGED <<epochs, train_size, test_size, err, training, epoch, batch_idx, it,
                   x, x_hat, mean, log_var, enc, overall_loss, step_grads, params,
                   opt_steps, wandb_log, console, epoch_losses, eval_fwd, noise,
                   generated_images, files>>

\* line 147, 149
Step ==
    /\ pc = "step"
    /\ step_grads' = grads
    /\ params' = params + 1
    /\ opt_steps' = opt_steps + 1
    /\ calls' = Append(calls, "step")
    /\ pc' = IF ShouldLog(batch_idx) THEN "log" ELSE "batch_head"
    /\ UNCHANGED <<epochs, train_size, test_size, err, training, epoch, batch_idx, it,
                   x, x_hat, mean, log_var, enc, overall_loss, grads, wandb_log,
                   console, epoch_losses, eval_fwd, noise, generated_images, files>>

\* line 150-163
Log ==
    /\ pc = "log"
    /\ view(x, <<10, 10, 28, 28>>) # ShapeError
    /\ view(x_hat, <<10, 10, 28, 28>>) # ShapeError
    /\ wandb_log' = wandb_log \o Emission(epoch, batch_idx)
    /\ pc' = "batch_head"
    /\ UNCHANGED <<epochs, train_size, test_size, err, training, epoch, batch_idx, it,
                   x, x_hat, mean, log_var, enc, overall_loss, grads, step_grads,
                   params, opt_steps, calls, console, epoch_losses, eval_fwd, noise,
                   generated_images, files>>

\* line 164-170
EpochPrint ==
    /\ pc = "epoch_print"
    /\ batch_idx * batch_size # 0
    /\ console' = [epoch |-> epoch + 1, num |-> overall_loss,
                   den |-> batch_idx * batch_size]
    /\ pc' = "epoch_head"
    /\ UNCHANGED <<epochs, train_size, test_size, err, training, epoch, batch_idx, it,
                   x, x_hat, mean, log_var, enc, overall_loss, grads, step_grads,
                   params, opt_steps, calls, wandb_log, epoch_losses, eval_fwd, noise,
                   generated_images, files>>

\* line 169: the divisor is 0, nothing catches the ZeroDivisionError
EpochPrintFail ==
    /\ pc = "epoch_print"
    /\ batch_idx * batch_size = 0
    /\ pc' = "failed"
    /\ err' = "ZeroDivisionError"
    /\ UNCHANGED <<epochs, train_size, test_size, training, epoch, batch_idx, it, x,
                   x_hat, mean, log_var, enc, overall_loss, grads, step_grads,
                   params, opt_steps, calls, wandb_log, console, epoch_losses, eval_fwd,
                   noise, generated_images, files>>

(* ---------------- evaluation and sampling ------------------------------ *)
\* line 131 (range exhausted), 171, 174
TrainingFinish ==
    /\ pc = "epoch_head"
    /\ ~RangeHasNext(epoch, epochs)
    /\ training' = FALSE
    /\ it' = 0
    /\ pc' = "test_head"
    /\ UNCHANGED <<epochs, train_size, test_size, err, epoch, batch_idx, x, x_hat, mean,
                   log_var, enc, overall_loss, grads, step_grads, params,
                   opt_steps, calls, wandb_log, console, epoch_losses, eval_fwd, noise,
                   generated_images, files>>

\* line 176-178
TestNext ==
    /\ pc = "test_head"
    /\ LoaderHasNext(it, test_size)
    /\ batch_idx' = it
    /\ it' = it + 1
    /\ x' = <<BatchLen(test_size, it), 1, 28, 28>>
    /\ pc' = "view"
    /\ UNCHANGED <<epochs, train_size, test_size, err, training, epoch, x_hat, mean,
                   log_var, enc, overall_loss, grads, step_grads, params,
                   opt_steps, calls, wandb_log, console, epoch_losses, eval_fwd, noise,
                   generated_images, files>>

\* line 184
SaveOrig ==
    /\ pc = "save_orig"
    /\ view(x, <<batch_size, 1, 28, 28>>) # ShapeError
    /\ files' = save_image(files, view(x, <<batch_size, 1, 28, 28>>), OrigFile)
    /\ pc' = "save_recon"
    /\ UNCHANGED <<epochs, train_size, test_size, err, training, epoch, batch_idx, it,
                   x, x_hat, mean, log_var, enc, overall_loss, grads, step_grads,
                   params, opt_steps, calls, wandb_log, console, epoch_losses, eval_fwd,
                   noise, generated_images>>

\* line 185
SaveRecon ==
    /\ pc = "save_recon"
    /\ view(x_hat, <<batch_size, 1, 28, 28>>) # ShapeError
    /\ files' = save_image(files, view(x_hat, <<batch_size, 1, 28, 28>>),
                           ReconFile)
    /\ pc' = "sample"
    /\ UNCHANGED <<epochs, train_size, test_size, err, training, epoch, batch_idx, it,
                   x, x_hat, mean, log_var, enc, overall_loss, grads, step_grads,
                   params, opt_steps, calls, wandb_log, console, epoch_losses, eval_fwd,
                   noise, generated_images>>

\* line 188-190
Sample ==
    /\ pc = "sample"
    /\ noise' = <<batch_size, latent_dim>>
    /\ generated_images' = Decoder(<<batch_size, latent_dim>>)
    /\ pc' = "save_gen"
    /\ UNCHANGED <<epochs, train_size, test_size, err, training, epoch, batch_idx, it,
                   x, x_hat, mean, log_var, enc, overall_loss, grads, step_grads,
                   params, opt_steps, calls, wandb_log, console, epoch_losses, eval_fwd,
                   files>>

\* line 192
SaveGen ==
    /\ pc = "save_gen"
    /\ view(generated_images, <<batch_size, 1, 28, 28>>) # ShapeError
    /\ files' = save_image(files, view(generated_images, <<batch_size, 1, 28, 28>>),
                           GenFile)
    /\ pc' = "done"
    /\ UNCHANGED <<epochs, train_size, test_size, err, training, epoch, batch_idx, it,
                   x, x_hat, mean, log_var, enc, overall_loss, grads, step_grads,
                   params, opt_steps, calls, wandb_log, console, epoch_losses, eval_fwd,
                   noise, generated_images>>

Next ==
    \/ EpochNext
    \/ BatchNext
    \/ BatchesExhausted
    \/ ViewOk
    \/ ViewFail
    \/ ZeroGrad
    \/ EncoderForward
    \/ DecoderForward
    \/ Loss
    \/ Backward
    \/ Step
    \/ Log
    \/ EpochPrint
    \/ EpochPrintFail
    \/ TrainingFinish
    \/ TestNext
    \/ SaveOrig
    \/ SaveRecon
    \/ Sample
    \/ SaveGen

Spec == Init /\ [][Next]_vars

(* ======================================================================= *)
(* Properties                                                              *)
(* ======================================================================= *)
B == NumBatches(train_size)

Ceil(a, b) == (a + b - 1) \div b

RECURSIVE SumLosses(_, _)
SumLosses(f, S) ==
    IF S = {} THEN 0
    ELSE LET v == CHOOSE u \in S : TRUE IN v * f[v] + SumLosses(f, S \ {v})

InBatchPcs == {"view", "zero_grad", "encoder", "decoder", "loss", "backward", "step", "log"}
EvalPcs == {"save_orig", "save_recon", "sample", "save_gen", "done"}

\* batches of the current epoch that have been through the whole loop body
BatchesThrough ==
    IF pc \in InBatchPcs \/ (pc = "failed" /\ err = "RuntimeError") THEN it - 1 ELSE it

\* batches of the current epoch whose optimizer step has been taken
BatchesStepped == IF pc = "log" THEN it ELSE BatchesThrough

FileNames == <<"orig_data.png", "reconstructions.png", "generated_sample.png">>

BatchSteps == <<"zero_grad", "forward", "loss", "backward", "step">>

(* C1: the three image files are written once each, in the order           *)
(* orig_data.png, reconstructions.png, generated_sample.png, each as a     *)
(* (batch_size, 1, 28, 28) grid; nothing is written before all epochs and  *)
(* the evaluation forward pass are over; a run that ends without failure   *)
(* has written all three, and each write is enabled as soon as the script  *)
(* reaches it, whatever the training produced.                             *)
C1_FilesOnceInOrderAfterTraining ==
    /\ Len(files) <= 3
    /\ \A i \in 1..Len(files) :
           /\ files[i].name = FileNames[i]
           /\ files[i].shape = <<batch_size, 1, 28, 28>>
    /\ files # <<>> => /\ ~training
                       /\ epoch = epochs - 1
                       /\ opt_steps = epochs * B
                       /\ Len(eval_fwd) = 1
    /\ pc = "done" => Len(files) = 3
    /\ pc = "save_orig" => ENABLED SaveOrig
    /\ pc = "save_recon" => ENABLED SaveRecon
    /\ pc = "save_gen" => ENABLED SaveGen

C1_Witness == pc = "done" /\ Len(files) = 3 /\ epochs >= 1 /\ opt_steps >= 2

(* C2: with an epoch count of 0 the loop body is never entered: no         *)
(* optimizer step, no gradient reset, no log emission, the parameters stay *)
(* at their initial values, the run does not fail and goes on to the       *)
(* evaluation pass and the three file writes.                              *)
C2_ZeroEpochsSkipsTraining ==
    epochs = 0 =>
        /\ pc \notin {"batch_head", "zero_grad", "loss", "backward", "step", "log",
                     "epoch_print", "failed"}
        /\ training => pc = "epoch_head"
        /\ epoch = -1
        /\ opt_steps = 0
        /\ params = 0
        /\ grads = {}
        /\ step_grads = {}
        /\ calls = <<>>
        /\ wandb_log = <<>>
        /\ console = NoLine
        /\ pc # "done" => ENABLED Next
        /\ pc = "done" => Len(eval_fwd) = 1 /\ Len(files) = 3

C2_Witness == epochs = 0 /\ pc = "done" /\ params = 0 /\ Len(files) = 3

(* C3: the log holds exactly one emission (composed_input,           *)
(* composed_predictions, in this order) for each batch that has been       *)
(* through the loop body and whose index within its epoch is a multiple of *)
(* log_interval, in the order of the batches, and none for any other       *)
(* batch; an emission is in the log only when the optimizer step of its    *)
(* batch has been taken.  A finished epoch of B batches has                *)
(* ceil(B / log_interval) emissions.                                       *)
C3_EmissionsEveryLogInterval ==
    LET perEpoch == Ceil(B, log_interval)
        emitted == IF ~training THEN epochs * perEpoch
                   ELSE IF epoch = -1 THEN 0
                   ELSE epoch * perEpoch + Ceil(BatchesThrough, log_interval)
    IN  /\ Len(wandb_log) = 3 * emitted
        /\ \A j \in 1..Len(wandb_log) :
               LET t == (j - 1) \div 3
                   e == t \div perEpoch
                   i == (t % perEpoch) * log_interval
               IN  /\ wandb_log[j] = Emission(e, i)[((j - 1) % 3) + 1]
                   /\ wandb_log[j].batch_idx % log_interval = 0
                   /\ opt_steps >= e * B + i + 1

C3_Witness ==
    /\ pc = "batch_head"
    /\ epoch = 1
    /\ batch_idx = log_interval
    /\ Len(wandb_log) = 12
    /\ wandb_log[12] = [key |-> "composed_predictions", epoch |-> 1,
                        batch_idx |-> log_interval]

(* C4: after the epoch summary is printed, the printed average equals the  *)
(* sum of the losses of that epoch's batches divided by                    *)
(* (number of batches in the epoch) * batch_size.                          *)
C4_AverageOverEpochSamples ==
    (pc = "epoch_head" /\ console.epoch = epoch + 1) =>
        /\ console.num = SumLosses(epoch_losses, LossValues)
        /\ console.num * (B * batch_size)
               = SumLosses(epoch_losses, LossValues) * console.den

(* C5: one forward pass on a (batch_size, 784) batch gives a               *)
(* reconstruction of shape (batch_size, 784) and mean and log-variance of  *)
(* shape (batch_size, latent_dim); the sampled latent has the shape of the *)
(* mean and of the log-variance; for the script's sizes these are          *)
(* (100, 784) and (100, 20).                                               *)
C5_ForwardShapes ==
    /\ enc.active => /\ enc.mean_shape = <<batch_size, latent_dim>>
                     /\ enc.log_var_shape = <<batch_size, latent_dim>>
                     /\ enc.z_shape = enc.mean_shape
                     /\ enc.z_shape = <<100, 20>>
    /\ x_hat # Unbound => /\ x_hat = <<batch_size, x_dim>>
                          /\ mean = <<batch_size, latent_dim>>
                          /\ log_var = <<batch_size, latent_dim>>
                          /\ x_hat = <<100, 784>>
                          /\ mean = <<100, 20>>
    /\ \A n \in 1..MaxBatchDim :
           LET f == EncoderFrame(<<n, 784>>, 0, 0, 0)
           IN  /\ f.mean_shape = <<n, latent_dim>>
               /\ f.log_var_shape = <<n, latent_dim>>
               /\ f.z_shape = <<n, latent_dim>>
               /\ Decoder(f.z_shape) = <<n, 784>>

C5_Witness == pc = "loss" /\ x_hat = <<100, 784>> /\ log_var = <<100, 20>>

(* C6: in the Encoder frame z - mean = std * epsilon, where std squared is *)
(* exp(log_var); with epsilon = 0 the sampled latent equals the mean.      *)
C6_Reparameterization ==
    enc.active =>
        /\ enc.std * enc.std = 2 ^ enc.log_var
        /\ enc.z - enc.mean = enc.std * enc.epsilon
        /\ enc.epsilon = 0 => enc.z = enc.mean

C6_Witness == enc.active /\ enc.epsilon = 0 /\ enc.std = 2 /\ enc.mean = 2 /\ enc.z = 2

(* C7: for every training batch the operations are zero_grad, forward,     *)
(* backward, step, in this order and once each; the gradients an     *)
(* optimizer step applies are those of the backward pass of its own batch  *)
(* and of no other.                                                        *)
C7_BatchStepOrder ==
    /\ Len(calls) <= Len(BatchSteps)
    /\ \A i \in 1..Len(calls) : calls[i] = BatchSteps[i]
    /\ (training /\ pc \in {"log", "batch_head"} /\ it > 0) => calls = BatchSteps
    /\ pc = "step" => grads = {<<epoch, batch_idx>>}
    /\ opt_steps = 0 => step_grads = {}
    /\ opt_steps > 0 =>
           step_grads = {<<(opt_steps - 1) \div B, (opt_steps - 1) % B>>}

C7_Witness ==
    /\ pc = "batch_head"
    /\ calls = BatchSteps
    /\ opt_steps >= 2
    /\ step_grads = {<<epoch, batch_idx>>}
    /\ batch_idx >= 1

\* a measure of the work left, which every step of the script decreases
Rank ==
    LET left == epochs - 1 - epoch
        perEpoch == 12 * B + 3
        trainPc == CASE pc = "epoch_head" -> 0
                     [] pc = "epoch_print" -> 1
                     [] pc = "batch_head" -> 2
                     [] pc = "log" -> 3
                     [] pc = "step" -> 4
                     [] pc = "backward" -> 5
                     [] pc = "loss" -> 6
                     [] pc = "decoder" -> 7
                     [] pc = "encoder" -> 8
                     [] pc = "zero_grad" -> 9
                     [] pc = "view" -> 10
                     [] OTHER -> 0
        evalPc == CASE pc = "test_head" -> 9
                    [] pc = "view" -> 8
                    [] pc = "encoder" -> 7
                    [] pc = "decoder" -> 6
                    [] pc = "save_orig" -> 5
                    [] pc = "save_recon" -> 4
                    [] pc = "sample" -> 3
                    [] pc = "save_gen" -> 2
                    [] pc = "done" -> 1
                    [] OTHER -> 0
    IN  IF pc = "failed" THEN 0
        ELSE IF training THEN 20 + left * perEpoch + (B - it) * 12 + trainPc
        ELSE evalPc

(* C8: the loop runs no more than the fixed number of epochs; while        *)
(* training, the optimizer steps taken are B per finished epoch plus one   *)
(* per batch of the current epoch that has been through the loop body; a   *)
(* completed training phase has run all the epochs and taken exactly       *)
(* epochs * B optimizer steps; and the run terminates: every step lowers a *)
(* natural-number measure, and the script stops only at its end or at an   *)
(* uncaught exception.                                                     *)
C8_EpochsTimesBatchesAndTermination ==
    /\ [](/\ epoch < epochs \/ epochs = 0
          /\ (training /\ epoch >= 0) => opt_steps = epoch * B + BatchesStepped
          /\ ~training => (epoch = epochs - 1 /\ opt_steps = epochs * B)
          /\ Rank \in Nat
          /\ pc \notin {"done", "failed"} => ENABLED Next)
    /\ [][Rank' < Rank]_vars

C8_Witness == ~training /\ epochs >= 2 /\ B >= 2 /\ opt_steps = epochs * B

(* C9: the model is run under no_grad only after training is over, once,   *)
(* on test batch 0; from the end of training on the parameters are those   *)
(* left by the last optimizer step of training.                            *)
C9_EvaluationOnePassNoUpdate ==
    /\ Len(eval_fwd) <= 1
    /\ \A i \in 1..Len(eval_fwd) : eval_fwd[i] = 0
    /\ eval_fwd # <<>> => ~training
    /\ pc \in EvalPcs => eval_fwd = <<0>>
    /\ ~training => /\ opt_steps = epochs * B
                    /\ params = epochs * B
                    /\ grads = (IF epochs = 0 THEN {} ELSE {<<epochs - 1, B - 1>>})

C9_Witness ==
    /\ pc = "done"
    /\ eval_fwd = <<0>>
    /\ test_size > batch_size
    /\ params >= 2

(* C10: every training batch that gets as far as the gradient reset, the   *)
(* forward pass or the optimizer step has exactly batch_size samples; a    *)
(* batch of another size fails at the reshape, before the gradients are    *)
(* reset and before any parameter changes for it, and the failure ends the *)
(* run.                                                                    *)
C10_PartialBatchFailsAtReshape ==
    /\ (training /\ pc \in InBatchPcs \ {"view"}) =>
           /\ x = <<batch_size, x_dim>>
           /\ BatchLen(train_size, batch_idx) = batch_size
    /\ \A b \in grads \cup step_grads : BatchLen(train_size, b[2]) = batch_size
    /\ (training /\ pc = "view" /\ x[1] # batch_size) =>
           ENABLED ViewFail /\ ~ENABLED ViewOk
    /\ err = "RuntimeError" =>
           /\ pc = "failed"
           /\ training
           /\ BatchLen(train_size, batch_idx) # batch_size
           /\ calls = <<>>
           /\ grads = (IF batch_idx = 0 THEN {} ELSE {<<epoch, batch_idx - 1>>})
           /\ opt_steps = epoch * B + batch_idx
           /\ params = opt_steps
    /\ pc = "failed" => ~ENABLED Next

C10_Witness ==
    /\ pc = "failed"
    /\ err = "RuntimeError"
    /\ batch_idx >= 1
    /\ grads = {<<0, batch_idx - 1>>}

====
